---- MODULE Spec2Model ----
(***************************************************************************)
(* MSD Analyzer: the MSD engine (src/core/msd_calculator.py) driven either *)
(* directly or through the background worker (src/core/workers.py).        *)
(*                                                                         *)
(* Numbers.  Times and coordinates are whole numbers, held in arrays whose  *)
(* dtype (int64 or float64) is kept beside them; every value the engine    *)
(* derives from them (means, finite differences) is an exact rational      *)
(* <<numerator, denominator>> in lowest terms.  A standard deviation is    *)
(* kept as the radicand it is the square root of.                          *)
(***************************************************************************)
EXTENDS Integers, Sequences, FiniteSets, TLC

\* ------------------------------------------------------------------ bounds

\* Largest number of particles in a trajectories map.
MaxParticles == 2
\* excluded_particles names the ids 1..k for some k <= MaxExcludedId.
MaxExcludedId == 2
\* calculate() calls made on the one MSDCalculator instance.
NumCalls == 2
\* Largest number of aggregate points handed to the fitting engine.
MaxPoints == 7
\* the calls made on one FittingAnalyzer
NumFits == 3
\* MSD calculations the main window completes.
MaxCalcs == 2
\* Samples of the long trajectory (its squared length passes the cost
\* threshold of the parallel path).
LongLen == 317

\* -------------------------------------------------------- program constants

\* msd_calculator.py:83  len(filtered_trajectories) > 10
ParallelParticleThreshold == 10
\* msd_calculator.py:83  total_computation > 100000
ParallelCostThreshold == 100000

\* ---------------------------------------------------------------- rationals

Abs(a) == IF a < 0 THEN -a ELSE a

RECURSIVE GCD(_, _)
GCD(a, b) == IF b = 0 THEN a ELSE GCD(b, a % b)

\* n/d in lowest terms with a positive denominator (d # 0).
Rat(n, d) ==
  LET g == GCD(Abs(n), Abs(d))
      s == IF d < 0 THEN -1 ELSE 1
  IN  << (s * n) \div g, (s * d) \div g >>

Zero == << 0, 1 >>
\* Sums are taken over the least common denominator.
RAdd(p, q) ==
  LET g == GCD(p[2], q[2])
  IN  Rat(p[1] * (q[2] \div g) + q[1] * (p[2] \div g), (p[2] \div g) * q[2])
RNeg(p) == << -p[1], p[2] >>
RSub(p, q) == RAdd(p, RNeg(q))
RMul(p, q) == Rat(p[1] * q[1], p[2] * q[2])
RDivInt(p, k) == Rat(p[1], p[2] * k)
RPositive(p) == p[1] > 0
\* p / q for q # 0, p <= q, and the smaller of two rationals
RDiv(p, q) == Rat(p[1] * q[2], p[2] * q[1])
RLeq(p, q) == p[1] * q[2] <= q[1] * p[2]
RMin(p, q) == IF RLeq(p, q) THEN p ELSE q
\* The whole number k as a rational.
RInt(k) == << k, 1 >>

\* np.sqrt(q), kept symbolically; it is 0 exactly when q is 0.
SqrtOf(q) == [radicand |-> q]

\* ------------------------------------------------------------- trajectories

\* A trajectory is one particle's DataFrame: the time column t, the position
\* columns as rows <<x, y, z>>, and whether the columns hold numbers (a column
\* of dtype object makes numpy's arithmetic raise).
TA == [t |-> << 0, 1, 2 >>,
       pos |-> << << 0, 0, 0 >>, << 1, 0, 0 >>, << 2, 0, 0 >> >>,
       numeric |-> TRUE]
\* Another time base, fractional means, motion along z.
TB == [t |-> << 0, 2, 3 >>,
       pos |-> << << 0, 0, 0 >>, << 0, 1, 1 >>, << 0, 3, 1 >> >>,
       numeric |-> TRUE]
\* A repeated timestamp.
TDup == [t |-> << 0, 1, 1 >>,
         pos |-> << << 0, 0, 0 >>, << 1, 0, 0 >>, << 3, 0, 0 >> >>,
         numeric |-> TRUE]
\* A single sample.
TOne == [t |-> << 0 >>, pos |-> << << 0, 0, 0 >> >>, numeric |-> TRUE]
\* Non-numeric values.
TBad == [t |-> << 0, 1 >>,
         pos |-> << << 0, 0, 0 >>, << 1, 0, 0 >> >>,
         numeric |-> FALSE]
\* LongLen samples on a straight line.
TLong == [t |-> [i \in 1..LongLen |-> i - 1],
          pos |-> [i \in 1..LongLen |-> << i - 1, 0, 0 >>],
          numeric |-> TRUE]

ShortTemplates == {TA, TB, TDup, TOne, TBad}

\* Maps of short trajectories, and maps whose first particle is the long one.
ShortMaps == UNION { [1..n -> ShortTemplates] : n \in 0..MaxParticles }
LongMaps == { << TLong >>, << TLong, TA >>, << TLong, TBad >> }
TrajectoryMaps == ShortMaps \cup LongMaps

\* excluded_particles: None, or a list of ids.
ExcludedChoices ==
  { [is_none |-> TRUE, ids |-> {}] }
  \cup { [is_none |-> FALSE, ids |-> 1..k] : k \in 0..MaxExcludedId }

\* ------------------------------------------------------ per-particle MSD

\* data['t'].values
TimesOf(data) == [values |-> data.t, numeric |-> data.numeric]

\* data[['x', 'y']].values if dimension == 2 else data[['x', 'y', 'z']].values
PositionsOf(data, dim) == [i \in 1..Len(data.pos) |-> SubSeq(data.pos[i], 1, dim)]

\* The sum of f[lo..hi], halving the range.
RECURSIVE SumRange(_, _, _)
SumRange(f, lo, hi) ==
  IF lo > hi THEN 0
  ELSE IF lo = hi THEN f[lo]
  ELSE LET mid == (lo + hi) \div 2
       IN  SumRange(f, lo, mid) + SumRange(f, mid + 1, hi)

\* np.sum(displacements ** 2, axis=1) for one row
SquaredDisplacement(a, b) ==
  SumRange([k \in 1..Len(a) |-> (a[k] - b[k]) * (a[k] - b[k])], 1, Len(a))

\* np.mean over all index pairs (j, j + delta)
MeanSquaredDisplacement(positions, delta) ==
  LET m == Len(positions) - delta
  IN  Rat(SumRange([j \in 1..m |->
                      SquaredDisplacement(positions[j + delta], positions[j])],
                   1, m),
          m)

NoCurve == [raised |-> FALSE, lag_time |-> << >>, msd |-> << >>]

\* MSDCalculator._calculate_single_msd_vectorized
CalculateSingleMsdVectorized(times, positions) ==
  LET n == Len(times.values) IN
  IF n < 2 THEN NoCurve
  ELSE IF ~times.numeric THEN [NoCurve EXCEPT !.raised = TRUE]
  ELSE
    LET lag_times == [i \in 1..(n - 1) |-> times.values[i + 1] - times.values[1]]
        msd_values == [d \in 1..(n - 1) |-> MeanSquaredDisplacement(positions, d)]
        valid_indices == SelectSeq([i \in 1..(n - 1) |-> i],
                                   LAMBDA i : RPositive(msd_values[i]))
    IN  [raised |-> FALSE,
         lag_time |-> [k \in 1..Len(valid_indices) |-> lag_times[valid_indices[k]]],
         msd |-> [k \in 1..Len(valid_indices) |-> msd_values[valid_indices[k]]]]

\* The long trajectory's curves, computed once.
LongCurve2 == CalculateSingleMsdVectorized(TimesOf(TLong), PositionsOf(TLong, 2))
LongCurve3 == CalculateSingleMsdVectorized(TimesOf(TLong), PositionsOf(TLong, 3))

\* self._calculate_single_msd_vectorized(data['t'].values, data[[...]].values)
SingleMsd(data, dim) ==
  IF data = TLong THEN (IF dim = 2 THEN LongCurve2 ELSE LongCurve3)
  ELSE CalculateSingleMsdVectorized(TimesOf(data), PositionsOf(data, dim))

\* ------------------------------------------------------------ aggregation

\* The sum of the rationals f[lo..hi], halving the range.
RECURSIVE RSumRange(_, _, _)
RSumRange(f, lo, hi) ==
  IF lo > hi THEN Zero
  ELSE IF lo = hi THEN f[lo]
  ELSE LET mid == (lo + hi) \div 2
       IN  RAdd(RSumRange(f, lo, mid), RSumRange(f, mid + 1, hi))

\* sorted(S) for a finite set of integers: its elements in ascending order.
Sorted(S) ==
  IF S = {} THEN << >>
  ELSE LET lo == CHOOSE x \in S : \A y \in S : x <= y
           hi == CHOOSE x \in S : \A y \in S : y <= x
       IN  SelectSeq([i \in 1..(hi - lo + 1) |-> lo + i - 1], LAMBDA x : x \in S)

\* set.update(lag_times)
Elements(seq) == { seq[i] : i \in 1..Len(seq) }

\* The loops of both passes (msd_calculator.py:158-165, :173-179) visit every
\* entry of every particle and key it to the bucket of its lag time
\* (lag_time_to_idx).  Contributions is the list of the msd values keyed to
\* the bucket of lag_time, particle after particle from position k on.
RECURSIVE Contributions(_, _, _, _)
Contributions(individual, pids, k, lag_time) ==
  IF k > Len(pids) THEN << >>
  ELSE LET c == individual[pids[k]]
           hits == SelectSeq([j \in 1..Len(c.lag_time) |-> j],
                             LAMBDA j : c.lag_time[j] = lag_time)
       IN  [h \in 1..Len(hits) |-> c.msd[hits[h]]]
           \o Contributions(individual, pids, k + 1, lag_time)

\* A count that misses one entry.
CountShort(values) == Len(values) - 1

\* counts[idx] += 1 per entry (msd_calculator.py:165).
Count(values) == Len(values)

\* avg_msd[idx] += particle_msd[i], then avg_msd /= counts where counts > 0
\* (msd_calculator.py:164-169).
Mean(values) ==
  LET total == RSumRange(values, 1, Len(values))
  IN  IF Count(values) > 0 THEN RDivInt(total, Count(values)) ELSE total

\* sum_sq_diff[idx] += (particle_msd[i] - avg_msd[idx]) ** 2
\* (msd_calculator.py:172-179).
SumSqDiff(values) ==
  LET avg == Mean(values)
  IN  RSumRange([h \in 1..Len(values) |->
                  LET d == RSub(values[h], avg) IN RMul(d, d)],
                1, Len(values))

\* msd_calculator.py:181-185: sample standard deviation, 0 for one sample.
Std(values) ==
  IF Count(values) > 1 THEN SqrtOf(RDivInt(SumSqDiff(values), Count(values) - 1))
  ELSE SqrtOf(Zero)

NoAggregate == [lag_time |-> << >>, msd |-> << >>, std |-> << >>, count |-> << >>]

\* msd_calculator.py:147-185
Aggregate(individual, lag_set) ==
  LET sorted_lag_times == Sorted(lag_set)
      n_times == Len(sorted_lag_times)
      pids == Sorted(DOMAIN individual)
      buckets == [i \in 1..n_times |->
                   LET values == Contributions(individual, pids, 1, sorted_lag_times[i])
                   IN  [msd |-> Mean(values), std |-> Std(values),
                        count |-> Count(values)]] \o << >>
  IN  [lag_time |-> sorted_lag_times,
       msd |-> [i \in 1..n_times |-> buckets[i].msd],
       std |-> [i \in 1..n_times |-> buckets[i].std],
       count |-> [i \in 1..n_times |-> buckets[i].count]]

\* np.array(sorted(all_lag_times)).dtype (msd_calculator.py:148): the dtype of
\* the time column, float64 for the empty array.
LagTimeDtype(lag_times, t_dtype) == IF lag_times = << >> THEN "float64" ELSE t_dtype

\* MSDCalculator._calculate_rdc_vectorized.  rdc_values = np.zeros_like(lag_times)
\* has the dtype of lag_times; on an int64 array the in-place true division
\* rdc_values /= (2 * dimension) raises (numpy cannot cast the float64 quotient
\* back to int64).
CalculateRdcVectorized(lag_times, msd_values, dim, dtype) ==
  LET n == Len(lag_times)
      slope(a, b) == RDivInt(RSub(msd_values[b], msd_values[a]),
                             lag_times[b] - lag_times[a])
  IN  IF n < 2
      THEN [raised |-> FALSE, lag_time |-> lag_times, rdc |-> [i \in 1..n |-> Zero]]
      ELSE IF dtype = "int64"
      THEN [raised |-> TRUE, lag_time |-> lag_times, rdc |-> << >>]
      ELSE [raised |-> FALSE, lag_time |-> lag_times,
            rdc |-> [i \in 1..n |->
                      RDivInt(IF i = 1 THEN slope(1, 2)
                              ELSE IF i = n THEN slope(n - 1, n)
                              ELSE slope(i - 1, i + 1),
                              2 * dim)]]

\* ------------------------------------------------------------------ state

VARIABLES
  trajectories,        \* the caller's map: particle id -> trajectory
  time_dtype,          \* the dtype of the map's time column t
  dimension,           \* 2 or 3
  excluded_particles,  \* the caller's exclusion list (or None)
  progress_callback,   \* "none", "sink" (a caller's own callable) or "worker"
  concurrent,          \* whether callers call from several threads at once
  n_cores,             \* MSDCalculator.n_cores
  is_calculating,      \* MSDCalculator.is_calculating
  pc,                  \* where each call is
  particle_ids,        \* per call: list(filtered_trajectories.keys())
  individual_msd,      \* per call: particle id -> curve
  all_lag_times,       \* per call: the set of lag times seen
  completed,           \* per call: particles handled so far
  futures,             \* per call: particle id -> the pool task's state
  aggregate,           \* per call: sorted lag times, mean, std, counts
  outcome,             \* per call: what calculate returned or raised
  reports,             \* per call: the percentages the progress sink received
  signals              \* per call: the worker's finished / error signals

\* The state of a call of the fitting engine (src/core/fitting.py), which
\* keeps nothing between calls.
VARIABLES
  fit_op,              \* "none", "fit_msd" or "analyze_scaling"
  msd_results,         \* the caller's MSD result: lag times and RDC values
  fit_settings,        \* the caller's fit_settings
  fitting_results,     \* analyze_scaling's optional fitting_results
  fit_pc,              \* where the call is
  search,              \* _find_best_fit_range's locals
  search_result,       \* what _find_best_fit_range returned or raised
  fit_window,          \* the caller's locals start_time and end_time
  fit_result,          \* what the call returned or raised
  fit_detail,          \* the returned record's model, V, L and dense curve
  past                 \* the range searches of the analyzer's earlier calls

\* The main window (src/gui/main_window.py) with its AppState, its settings
\* panel and its MSD worker.
VARIABLES
  state,               \* MainWindow.state, the AppState
  panel,               \* the settings panel's selections
  buttons,             \* which buttons are enabled
  msd_worker,          \* MainWindow._msd_worker: "none", "running" or "ended"
  msd_count,           \* the MSD results computed so far
  output               \* what the window last drew and what it last saved

calcVars == << trajectories, time_dtype, dimension, excluded_particles,
               progress_callback, concurrent, n_cores, is_calculating, pc,
               particle_ids, individual_msd, all_lag_times, completed, futures,
               aggregate, outcome, reports, signals >>

fitInputs == << fit_op, msd_results, fit_settings, fitting_results >>

fitVars == << fitInputs, fit_pc, search, search_result, fit_window, fit_result,
              fit_detail, past >>

appVars == << state, panel, buttons, msd_worker, msd_count, output >>

vars == << calcVars, fitVars, appVars >>

inputs == << trajectories, time_dtype, dimension, excluded_particles, progress_callback,
             concurrent, n_cores >>

Calls == 1..NumCalls

NoResult ==
  [individual |-> << >>,
   average |-> [lag_time |-> << >>, msd |-> << >>, std |-> << >>],
   stats |-> [lag_time |-> << >>, count |-> << >>],
   rdc |-> [lag_time |-> << >>, rdc |-> << >>]]

Pending == [kind |-> "pending", error |-> "", result |-> NoResult]
Null == [kind |-> "null", error |-> "", result |-> NoResult]
Raise(e) == [kind |-> "raise", error |-> e, result |-> NoResult]
Return(r) == [kind |-> "result", error |-> "", result |-> r]

\* msd_calculator.py:194-210
MsdResults(individual, agg, rdc) ==
  [individual |-> individual,
   average |-> [lag_time |-> agg.lag_time, msd |-> agg.msd, std |-> agg.std],
   stats |-> [lag_time |-> agg.lag_time, count |-> agg.count],
   rdc |-> [lag_time |-> rdc.lag_time, rdc |-> rdc.rdc]]

\* The ids kept are those the exclusion list names.
FilteredIdsInverted(trajs, excluded) ==
  LET ex == IF excluded.is_none THEN {} ELSE excluded.ids
  IN  Sorted({ pid \in DOMAIN trajs : ex = {} \/ pid \in ex })

\* The ids of the map with the exclusion list ignored.
FilteredIdsUnfiltered(trajs, excluded) == Sorted(DOMAIN trajs)

\* msd_calculator.py:63-68: the ids kept, in the map's order.
FilteredIds(trajs, excluded) ==
  LET ex == IF excluded.is_none THEN {} ELSE excluded.ids
  IN  Sorted({ pid \in DOMAIN trajs : pid \notin ex })

\* msd_calculator.py:82-83
UseParallel(trajs, ids) ==
  LET total_computation ==
        SumRange([k \in 1..Len(ids) |->
                   Len(trajs[ids[k]].t) * Len(trajs[ids[k]].t)], 1, Len(ids))
  IN  Len(ids) > ParallelParticleThreshold
      \/ total_computation > ParallelCostThreshold

\* The percentage without the division by the number of particles.
ParticlePercentUnscaled(k, total) == 10 + (70 * k)

\* msd_calculator.py:118 and :140   10 + int(70 * k / total_particles)
ParticlePercent(k, total) == 10 + ((70 * k) \div total)

\* msd_calculator.py:75, :145, :189: the fixed stage percentages
StartPercent == 5
AveragePercent == 85
RdcPercent == 95
\* workers.py:62 and :72
WorkerStartPercent == 0
WorkerDonePercent == 100

\* Whether an invocation of the progress callback may raise: only a caller's
\* own callable can; the worker's _report_progress emits a queued Qt signal.
RaiseChoices == IF progress_callback = "sink" THEN BOOLEAN ELSE {FALSE}

\* progress_callback(percent, message): received by the sink when one is set.
Reported(c, percent) ==
  IF progress_callback = "none" THEN reports
  ELSE [reports EXCEPT ![c] = Append(@, percent)]

\* msd_calculator.py:27  max(1, multiprocessing.cpu_count() - 2), on a host
\* of up to 4 cores; only the parallel path reads it.
PoolSizes(trajs, excluded) ==
  IF UseParallel(trajs, FilteredIds(trajs, excluded)) THEN {1, 2} ELSE {1}

\* ------------------------------------------------- fitting engine: data

\* _find_best_fit_range's locals before the search starts (indices are the
\* code's, counted from 0).
NoSearch == [start_idx |-> 0, end_idx |-> 0, best_end_idx |-> 0,
             max_interval_length |-> 0]

NoSearchResult == [kind |-> "none", error |-> "", value |-> Zero]
SearchRaise(e) == [kind |-> "raise", error |-> e, value |-> Zero]
SearchReturn(v) == [kind |-> "return", error |-> "", value |-> v]

NoWindow == [start_time |-> Zero, end_time |-> Zero]

FitPending == [kind |-> "pending", error |-> "", start_time |-> Zero, end_time |-> Zero]
FitRaise(e) == [kind |-> "raise", error |-> e, start_time |-> Zero, end_time |-> Zero]

\* fitting.py:83-99: the result record's start_time and end_time.
FitResult(start_time, end_time) ==
  [kind |-> "result", error |-> "", start_time |-> start_time, end_time |-> end_time]

\* An MSD result without points: lag times, RDC values, and the indices (from
\* 1) at which the RDC value is not a finite number.
NoMsdResults == [lag_time |-> << >>, rdc |-> << >>, nan |-> {}]

\* settings_panel.py:93 and :99, the panel's initial end time and threshold
DefaultEndTime == 10
DefaultThreshold == << 95, 100 >>

\* settings_panel.py:49-52: the models the panel offers; fit_msd knows the
\* first three (fitting.py:59, :101, :144).
ModelTypes == {"brownian", "drift", "confined", "active"}
KnownModels == {"brownian", "drift", "confined"}

NoFitSettings == [auto_fit |-> FALSE, start_time |-> 0, end_time |-> DefaultEndTime,
                  r_squared_threshold |-> DefaultThreshold, model_type |-> "brownian"]

\* No record returned: no model, no parameters, no dense curve.
NoDetail == [model |-> "", V |-> "absent", L |-> "absent",
             curve_from |-> Zero, curve_to |-> Zero]

\* fitting_results=None
NoFittingResults == [given |-> FALSE, end_time |-> Zero]

\* app_state.py:70-77: no data and no results; a result held by the state
\* carries the number (from 1) of the MSD result it was computed from.
\* A float: a number, or NaN (every comparison with NaN is false).
Number(q) == [nan |-> FALSE, value |-> q]
NaN == [nan |-> TRUE, value |-> Zero]
Less(a, b) == ~a.nan /\ ~b.nan /\ ~RLeq(b.value, a.value)
LessEq(a, b) == ~a.nan /\ ~b.nan /\ RLeq(a.value, b.value)

NoFit == [given |-> FALSE, from_msd |-> 0, model |-> "", V |-> "absent", L |-> "absent"]
NoScaling == [given |-> FALSE, from_msd |-> 0, window_of |-> 0, alpha |-> Number(Zero)]
NoState == [trajectories |-> FALSE, excluded_particles |-> FALSE, msd_results |-> 0,
            fitting_results |-> NoFit, scaling_results |-> NoScaling]

\* settings_panel.py:49: the first model is selected; no particle is excluded.
NoPanel == [model_type |-> "brownian", excluded |-> FALSE]

\* main_window.py:154-157: only the load button is enabled.
NoButtons == [load |-> TRUE, calculate |-> FALSE, fit |-> FALSE, scaling |-> FALSE,
              save |-> FALSE]

\* Nothing drawn and nothing saved.
NoOutput == [plot_regime |-> "", export |-> "", V_row |-> FALSE, L_row |-> FALSE,
             export_regime |-> "", report |-> "", report_regime |-> "",
             msd_of |-> 0, fit_of |-> 0, scaling_of |-> 0]

\* main_window.py:78-90: the window after construction.
InitAppIdle ==
  /\ state = NoState
  /\ panel = NoPanel
  /\ buttons = NoButtons
  /\ msd_worker = "none"
  /\ msd_count = 0
  /\ output = NoOutput

\* No call of the fitting engine is made.
InitFitIdle ==
  /\ fit_op = "none"
  /\ msd_results = NoMsdResults
  /\ fit_settings = NoFitSettings
  /\ fitting_results = NoFittingResults
  /\ fit_pc = "idle"
  /\ search = NoSearch
  /\ search_result = NoSearchResult
  /\ fit_window = NoWindow
  /\ fit_result = FitPending
  /\ fit_detail = NoDetail
  /\ past = {}

\* The dtypes pandas gives a numeric time column.
TimeDtypes == {"int64", "float64"}

TypeOK ==
  /\ dimension \in {2, 3}
  /\ time_dtype \in TimeDtypes
  /\ is_calculating \in BOOLEAN
  /\ concurrent \in BOOLEAN
  /\ progress_callback \in {"none", "sink", "worker"}
  /\ \A c \in Calls : completed[c] \in 0..Len(particle_ids[c])

InitCalls ==
  /\ is_calculating = FALSE
  /\ pc = [c \in Calls |-> "idle"]
  /\ particle_ids = [c \in Calls |-> << >>]
  /\ individual_msd = [c \in Calls |-> << >>]
  /\ all_lag_times = [c \in Calls |-> {}]
  /\ completed = [c \in Calls |-> 0]
  /\ futures = [c \in Calls |-> << >>]
  /\ aggregate = [c \in Calls |-> NoAggregate]
  /\ outcome = [c \in Calls |-> Pending]
  /\ reports = [c \in Calls |-> << >>]
  /\ signals = [c \in Calls |-> << >>]

\* One caller at a time, any input.
Init ==
  /\ trajectories \in TrajectoryMaps
  /\ time_dtype \in TimeDtypes
  /\ dimension \in {2, 3}
  /\ excluded_particles \in ExcludedChoices
  /\ progress_callback \in {"none", "sink", "worker"}
  /\ concurrent = FALSE
  /\ n_cores \in PoolSizes(trajectories, excluded_particles)
  /\ InitCalls
  /\ InitFitIdle
  /\ InitAppIdle

\* Callers in several threads at once, on a few inputs.
InitConcurrent ==
  /\ trajectories \in { << TA >>, << TLong, TA >> }
  /\ time_dtype = "float64"
  /\ dimension = 2
  /\ excluded_particles \in { [is_none |-> TRUE, ids |-> {}],
                              [is_none |-> FALSE, ids |-> {1}] }
  /\ progress_callback \in {"none", "sink", "worker"}
  /\ concurrent = TRUE
  /\ n_cores \in PoolSizes(trajectories, excluded_particles)
  /\ InitCalls
  /\ InitFitIdle
  /\ InitAppIdle

\* ---------------------------------------------------------------- actions

\* The call's frame is over: calculate has returned or raised and, under the
\* worker, run() has ended.
Ended(c) ==
  \/ pc[c] = "done"
  \/ pc[c] = "returned" /\ progress_callback # "worker"

Started(c) == pc[c] # "idle"

\* A caller calls calculate (workers.py:59-69 when it is the worker's run:
\* progress 0 is emitted first).  Calls are numbered in the order they are
\* made; a caller that is not concurrent waits for the earlier call to end.
Enter(c) ==
  /\ pc[c] = "idle"
  /\ \A d \in Calls : d < c => Started(d)
  /\ concurrent \/ \A d \in Calls : d # c => (~Started(d) \/ Ended(d))
  /\ pc' = [pc EXCEPT ![c] = "guard"]
  /\ reports' = IF progress_callback = "worker"
                THEN [reports EXCEPT ![c] = Append(@, WorkerStartPercent)]
                ELSE reports
  /\ UNCHANGED << inputs, fitVars, appVars, is_calculating, particle_ids, individual_msd,
                  all_lag_times, completed, futures, aggregate, outcome, signals >>

\* msd_calculator.py:57-58   if self.is_calculating: return None
Guard(c) ==
  /\ pc[c] = "guard"
  /\ IF is_calculating
     THEN /\ pc' = [pc EXCEPT ![c] = "returned"]
          /\ outcome' = [outcome EXCEPT ![c] = Null]
     ELSE /\ pc' = [pc EXCEPT ![c] = "set"]
          /\ UNCHANGED outcome
  /\ UNCHANGED << inputs, fitVars, appVars, is_calculating, particle_ids, individual_msd,
                  all_lag_times, completed, futures, aggregate, reports, signals >>

\* msd_calculator.py:60   self.is_calculating = True
SetFlag(c) ==
  /\ pc[c] = "set"
  /\ is_calculating' = TRUE
  /\ pc' = [pc EXCEPT ![c] = "filter"]
  /\ UNCHANGED << inputs, fitVars, appVars, particle_ids, individual_msd, all_lag_times,
                  completed, futures, aggregate, outcome, reports, signals >>

\* msd_calculator.py:63-71: exclusion, and the empty-input error.
Filter(c) ==
  /\ pc[c] = "filter"
  /\ LET ids == FilteredIds(trajectories, excluded_particles)
     IN  IF ids = << >>
         THEN /\ outcome' = [outcome EXCEPT ![c] = Raise("EmptyInput")]
              /\ pc' = [pc EXCEPT ![c] = "finally"]
              /\ UNCHANGED particle_ids
         ELSE /\ particle_ids' = [particle_ids EXCEPT ![c] = ids]
              /\ pc' = [pc EXCEPT ![c] = "start"]
              /\ UNCHANGED outcome
  /\ UNCHANGED << inputs, fitVars, appVars, is_calculating, individual_msd, all_lag_times,
                  completed, futures, aggregate, reports, signals >>

\* msd_calculator.py:73-88: the 5% report, then the choice of the path.
ReportStart(c) ==
  /\ pc[c] = "start"
  /\ reports' = Reported(c, StartPercent)
  /\ \E raises \in RaiseChoices :
       IF raises
       THEN /\ outcome' = [outcome EXCEPT ![c] = Raise("Callback")]
            /\ pc' = [pc EXCEPT ![c] = "finally"]
       ELSE /\ pc' = [pc EXCEPT ![c] =
                        IF UseParallel(trajectories, particle_ids[c])
                        THEN "submit" ELSE "serial"]
            /\ UNCHANGED outcome
  /\ UNCHANGED << inputs, fitVars, appVars, is_calculating, particle_ids, individual_msd,
                  all_lag_times, completed, futures, aggregate, signals >>

\* msd_calculator.py:122-141: one iteration of the serial loop.  Nothing
\* catches what the per-particle computation raises.
SerialStep(c) ==
  /\ pc[c] = "serial"
  /\ LET idx == completed[c]
         particle_id == particle_ids[c][idx + 1]
         data == trajectories[particle_id]
         r == SingleMsd(data, dimension)
         total_particles == Len(particle_ids[c])
     IN  IF r.raised
         THEN /\ outcome' = [outcome EXCEPT ![c] = Raise("Particle")]
              /\ pc' = [pc EXCEPT ![c] = "finally"]
              /\ UNCHANGED << individual_msd, all_lag_times, completed, reports >>
         ELSE /\ individual_msd' = [individual_msd EXCEPT ![c] =
                   (particle_id :> [lag_time |-> r.lag_time, msd |-> r.msd]) @@ @]
              /\ all_lag_times' = [all_lag_times EXCEPT ![c] = @ \cup Elements(r.lag_time)]
              /\ completed' = [completed EXCEPT ![c] = idx + 1]
              /\ reports' = Reported(c, ParticlePercent(idx + 1, total_particles))
              /\ \E raises \in RaiseChoices :
                   IF raises
                   THEN /\ outcome' = [outcome EXCEPT ![c] = Raise("Callback")]
                        /\ pc' = [pc EXCEPT ![c] = "finally"]
                   ELSE /\ pc' = [pc EXCEPT ![c] =
                                    IF idx + 1 = total_particles
                                    THEN "average" ELSE "serial"]
                        /\ UNCHANGED outcome
  /\ UNCHANGED << inputs, fitVars, appVars, is_calculating, particle_ids, futures, aggregate, signals >>

\* A loop that stops at the first completed future.
LoopExhaustedAtFirst(n_completed, total_particles) == n_completed >= 1

\* msd_calculator.py:103: as_completed yields every submitted future once.
LoopExhausted(n_completed, total_particles) == n_completed = total_particles

NoFuture == [state |-> "queued", raised |-> FALSE, lag_time |-> << >>, msd |-> << >>]

\* msd_calculator.py:90-99: every filtered particle is submitted to the pool.
Submit(c) ==
  /\ pc[c] = "submit"
  /\ futures' = [futures EXCEPT ![c] =
                   [pid \in Elements(particle_ids[c]) |-> NoFuture]]
  /\ pc' = [pc EXCEPT ![c] = "collect"]
  /\ UNCHANGED << inputs, fitVars, appVars, is_calculating, particle_ids, individual_msd,
                  all_lag_times, completed, aggregate, outcome, reports, signals >>

InState(c, st) == { pid \in DOMAIN futures[c] : futures[c][pid].state = st }

\* A pool thread takes the oldest queued task (max_workers = n_cores).
TaskStart(c, pid) ==
  /\ pid \in InState(c, "queued")
  /\ \A q \in InState(c, "queued") : pid <= q
  /\ Cardinality(InState(c, "running")) < n_cores
  /\ futures' = [futures EXCEPT ![c][pid].state = "running"]
  /\ UNCHANGED << inputs, fitVars, appVars, is_calculating, pc, particle_ids, individual_msd,
                  all_lag_times, completed, aggregate, outcome, reports, signals >>

\* The pool thread runs _calculate_single_msd_vectorized to its end; the
\* future holds the curve or the exception.
TaskFinish(c, pid) ==
  /\ pid \in InState(c, "running")
  /\ LET data == trajectories[pid]
         r == SingleMsd(data, dimension)
     IN  futures' = [futures EXCEPT ![c][pid] =
                       [state |-> "finished", raised |-> r.raised,
                        lag_time |-> r.lag_time, msd |-> r.msd]]
  /\ UNCHANGED << inputs, fitVars, appVars, is_calculating, pc, particle_ids, individual_msd,
                  all_lag_times, completed, aggregate, outcome, reports, signals >>

\* msd_calculator.py:103-119: as_completed yields a finished future; its
\* curve is stored, or its exception logged; then the progress report.
Collect(c, pid) ==
  /\ pc[c] = "collect"
  /\ pid \in InState(c, "finished")
  /\ LET f == futures[c][pid]
         total_particles == Len(particle_ids[c])
     IN  /\ futures' = [futures EXCEPT ![c][pid].state = "collected"]
         /\ IF f.raised
            THEN UNCHANGED << individual_msd, all_lag_times >>
            ELSE /\ individual_msd' = [individual_msd EXCEPT ![c] =
                      (pid :> [lag_time |-> f.lag_time, msd |-> f.msd]) @@ @]
                 /\ all_lag_times' = [all_lag_times EXCEPT ![c] = @ \cup Elements(f.lag_time)]
         /\ completed' = [completed EXCEPT ![c] = @ + 1]
         /\ reports' = Reported(c, ParticlePercent(completed[c] + 1, total_particles))
         /\ \E raises \in RaiseChoices :
              IF raises
              THEN /\ outcome' = [outcome EXCEPT ![c] = Raise("Callback")]
                   /\ pc' = [pc EXCEPT ![c] = "shutdown"]
              ELSE /\ pc' = [pc EXCEPT ![c] =
                               IF LoopExhausted(completed[c] + 1, total_particles)
                               THEN "shutdown" ELSE "collect"]
                   /\ UNCHANGED outcome
  /\ UNCHANGED << inputs, fitVars, appVars, is_calculating, particle_ids, aggregate, signals >>

\* msd_calculator.py:90: leaving the with block joins the pool
\* (shutdown(wait=True)), on the normal and on the exceptional exit.
Shutdown(c) ==
  /\ pc[c] = "shutdown"
  /\ InState(c, "queued") = {}
  /\ InState(c, "running") = {}
  /\ pc' = [pc EXCEPT ![c] = IF outcome[c].kind = "raise" THEN "finally" ELSE "average"]
  /\ UNCHANGED << inputs, fitVars, appVars, is_calculating, particle_ids, individual_msd,
                  all_lag_times, completed, futures, aggregate, outcome,
                  reports, signals >>

\* msd_calculator.py:143-145: the 85% report.
ReportAverage(c) ==
  /\ pc[c] = "average"
  /\ reports' = Reported(c, AveragePercent)
  /\ \E raises \in RaiseChoices :
       IF raises
       THEN /\ outcome' = [outcome EXCEPT ![c] = Raise("Callback")]
            /\ pc' = [pc EXCEPT ![c] = "finally"]
       ELSE /\ pc' = [pc EXCEPT ![c] = "aggregate"]
            /\ UNCHANGED outcome
  /\ UNCHANGED << inputs, fitVars, appVars, is_calculating, particle_ids, individual_msd,
                  all_lag_times, completed, futures, aggregate, signals >>

\* msd_calculator.py:147-185: mean, count and standard deviation per lag time.
DoAggregate(c) ==
  /\ pc[c] = "aggregate"
  /\ aggregate' = [aggregate EXCEPT ![c] = Aggregate(individual_msd[c], all_lag_times[c])]
  /\ pc' = [pc EXCEPT ![c] = "rdc"]
  /\ UNCHANGED << inputs, fitVars, appVars, is_calculating, particle_ids, individual_msd,
                  all_lag_times, completed, futures, outcome, reports, signals >>

\* msd_calculator.py:187-212: the 95% report, the RDC, the result.
ReportRdc(c) ==
  /\ pc[c] = "rdc"
  /\ reports' = Reported(c, RdcPercent)
  /\ \E raises \in RaiseChoices :
       outcome' = [outcome EXCEPT ![c] =
         IF raises THEN Raise("Callback")
         ELSE LET rdc == CalculateRdcVectorized(
                           aggregate[c].lag_time, aggregate[c].msd, dimension,
                           LagTimeDtype(aggregate[c].lag_time, time_dtype))
              IN  IF rdc.raised THEN Raise("TypeError")
                  ELSE Return(MsdResults(individual_msd[c], aggregate[c], rdc))]
  /\ pc' = [pc EXCEPT ![c] = "finally"]
  /\ UNCHANGED << inputs, fitVars, appVars, is_calculating, particle_ids, individual_msd,
                  all_lag_times, completed, futures, aggregate, signals >>

\* The flag is cleared only when calculate returns a result.
FinallyOnSuccess(c) ==
  /\ pc[c] = "finally"
  /\ is_calculating' = (outcome[c].kind # "result" /\ is_calculating)
  /\ pc' = [pc EXCEPT ![c] = "returned"]
  /\ UNCHANGED << inputs, fitVars, appVars, particle_ids, individual_msd, all_lag_times,
                  completed, futures, aggregate, outcome, reports, signals >>

\* msd_calculator.py:214-216   finally: self.is_calculating = False
Finally(c) ==
  /\ pc[c] = "finally"
  /\ is_calculating' = FALSE
  /\ pc' = [pc EXCEPT ![c] = "returned"]
  /\ UNCHANGED << inputs, fitVars, appVars, particle_ids, individual_msd, all_lag_times,
                  completed, futures, aggregate, outcome, reports, signals >>

\* workers.py:71-79: after calculate, run() emits progress 100 and finished
\* for a result, error for an exception, nothing for None.
WorkerFinish(c) ==
  /\ pc[c] = "returned"
  /\ progress_callback = "worker"
  /\ pc' = [pc EXCEPT ![c] = "done"]
  /\ reports' = IF outcome[c].kind = "result"
                THEN [reports EXCEPT ![c] = Append(@, WorkerDonePercent)]
                ELSE reports
  /\ signals' = [signals EXCEPT ![c] =
                   IF outcome[c].kind = "result" THEN Append(@, "finished")
                   ELSE IF outcome[c].kind = "raise" THEN Append(@, "error")
                   ELSE @]
  /\ UNCHANGED << inputs, fitVars, appVars, is_calculating, particle_ids, individual_msd,
                  all_lag_times, completed, futures, aggregate, outcome >>

Next ==
  \E c \in Calls :
    \/ Enter(c)
    \/ Guard(c)
    \/ SetFlag(c)
    \/ Filter(c)
    \/ ReportStart(c)
    \/ SerialStep(c)
    \/ Submit(c)
    \/ \E pid \in DOMAIN futures[c] : TaskStart(c, pid)
    \/ \E pid \in DOMAIN futures[c] : TaskFinish(c, pid)
    \/ \E pid \in DOMAIN futures[c] : Collect(c, pid)
    \/ Shutdown(c)
    \/ ReportAverage(c)
    \/ DoAggregate(c)
    \/ ReportRdc(c)
    \/ Finally(c)
    \/ WorkerFinish(c)

Spec == Init /\ [][Next]_vars

SpecConcurrent == InitConcurrent /\ [][Next]_vars

\* ------------------------------------------- fitting engine: the inputs

\* Aggregate lag times 1, 2, ..., n.
LagGrid(n) == [i \in 1..n |-> i]

\* RDC values on a straight line in the lag time.
RdcLines(n) == { [i \in 1..n |-> a * i + b] : a \in {-1, 1, 2}, b \in {0, 3} }

\* RDC values: every curve of zeros and ones (the constant ones included),
\* and the straight lines; the RDC of a single point is 0
\* (msd_calculator.py:274-278).
RdcCurves(n) == IF n = 1 THEN { << 0 >> } ELSE [1..n -> {0, 1}] \cup RdcLines(n)

\* All RDC values finite, or the fourth one not a number.
NanChoices(n) == IF n >= 4 THEN { {}, {4} } ELSE { {} }

\* Aggregate lag times 0, 1, ..., n - 1: a lag time of 0 comes from a
\* trajectory with two samples at its first time.
LagGridFromZero(n) == [i \in 1..n |-> i - 1]

MsdResultsChoices ==
  UNION { { [lag_time |-> LagGrid(n), rdc |-> y, nan |-> k] :
              y \in RdcCurves(n), k \in NanChoices(n) } : n \in 0..MaxPoints }
  \cup UNION { { [lag_time |-> LagGridFromZero(n), rdc |-> y, nan |-> {}] :
                    y \in RdcCurves(n) \cap (RdcLines(n) \cup { << 0 >> }) } :
                n \in 1..MaxPoints }

StartTimes == {0, 1, 3, 8}
EndTimes == {2, 20}
Thresholds == { << 7, 10 >>, << 99, 100 >> }

\* fit_settings: automatic with a threshold, or manual with an end time;
\* only fit_msd reads the model type.
FitSettingsChoices(op) ==
  LET models == IF op = "fit_msd" THEN ModelTypes ELSE {"brownian"}
  IN  { [auto_fit |-> TRUE, start_time |-> st, end_time |-> DefaultEndTime,
         r_squared_threshold |-> th, model_type |-> m] :
          st \in StartTimes, th \in Thresholds, m \in models }
      \cup { [auto_fit |-> FALSE, start_time |-> st, end_time |-> e,
              r_squared_threshold |-> DefaultThreshold, model_type |-> m] :
              st \in StartTimes, e \in EndTimes, m \in models }

\* analyze_scaling's fitting_results: None, or an earlier fit's result.
FittingResultsChoices ==
  { NoFittingResults } \cup { [given |-> TRUE, end_time |-> RInt(e)] : e \in EndTimes }

\* One call of fit_msd or analyze_scaling, on any input.
InitFit ==
  /\ trajectories = << >>
  /\ time_dtype = "float64"
  /\ dimension = 2
  /\ excluded_particles = [is_none |-> TRUE, ids |-> {}]
  /\ progress_callback = "none"
  /\ concurrent = FALSE
  /\ n_cores = 1
  /\ InitCalls
  /\ fit_op \in {"fit_msd", "analyze_scaling"}
  /\ msd_results \in MsdResultsChoices
  /\ fit_settings \in FitSettingsChoices(fit_op)
  /\ fitting_results \in (IF fit_op = "analyze_scaling"
                          THEN FittingResultsChoices ELSE { NoFittingResults })
  /\ fit_pc = "idle"
  /\ search = NoSearch
  /\ search_result = NoSearchResult
  /\ fit_window = NoWindow
  /\ fit_result = FitPending
  /\ fit_detail = NoDetail
  /\ past = {}
  /\ InitAppIdle

\* ------------------------------------- fitting engine: the range search

\* np.polyfit(x, y, 1): the least-squares line through the points.
Polyfit(x, y) ==
  LET n == Len(x)
      Sx == SumRange(x, 1, n)
      Sy == SumRange(y, 1, n)
      Sxx == SumRange([i \in 1..n |-> x[i] * x[i]], 1, n)
      Sxy == SumRange([i \in 1..n |-> x[i] * y[i]], 1, n)
      slope == Rat(n * Sxy - Sx * Sy, n * Sxx - Sx * Sx)
      intercept == RDivInt(RSub(RInt(Sy), RMul(slope, RInt(Sx))), n)
  IN  [slope |-> slope, intercept |-> intercept]

\* fitting.py:250-257: R^2 of the line over the window, 0 when ss_tot is 0.
RSquared(x, y) ==
  LET n == Len(x)
      line == Polyfit(x, y)
      y_fit == [i \in 1..n |-> RAdd(RMul(line.slope, RInt(x[i])), line.intercept)]
      residuals == [i \in 1..n |-> RSub(RInt(y[i]), y_fit[i])]
      ss_res == RSumRange([i \in 1..n |-> RMul(residuals[i], residuals[i])], 1, n)
      mean_y == Rat(SumRange(y, 1, n), n)
      ss_tot == RSumRange([i \in 1..n |->
                            LET d == RSub(RInt(y[i]), mean_y) IN RMul(d, d)], 1, n)
  IN  IF ss_tot # Zero THEN RSub(RInt(1), RDiv(ss_res, ss_tot)) ELSE Zero

\* np.polyfit raises (the SVD of the least-squares problem does not converge)
\* when a value of the window lag_times[start_idx:end_idx+1] is not finite.
PolyfitRaises(nan, start_idx, end_idx) ==
  \E i \in (start_idx + 1)..(end_idx + 1) : i \in nan

\* A length check that lets two points through.
TooFewPointsBelowTwo(n) == n < 2

\* fitting.py:219   len(lag_times) < 3
TooFewPoints(n) == n < 3

\* fitting.py:223   np.where(lag_times >= start_time)[0], indices from 0
StartIdxArray(lag_times, start_time) ==
  { i - 1 : i \in { j \in 1..Len(lag_times) : RLeq(start_time, RInt(lag_times[j])) } }

\* The first window that meets the threshold is kept for good.
ImprovesFirstOnly(r_squared, r_squared_threshold, current_interval_length, max_interval_length) ==
  /\ RLeq(r_squared_threshold, r_squared)
  /\ max_interval_length = 0

\* fitting.py:260
Improves(r_squared, r_squared_threshold, current_interval_length, max_interval_length) ==
  /\ RLeq(r_squared_threshold, r_squared)
  /\ current_interval_length > max_interval_length

\* A failed window that also discards the best window recorded so far.
DiscardOnFailedWindow(s) ==
  [s EXCEPT !.end_idx = @ + 1, !.max_interval_length = 0,
            !.best_end_idx = s.start_idx + 1]

\* fitting.py:263-270   except ...: continue
SkipFailedWindow(s) == [s EXCEPT !.end_idx = @ + 1]

\* A fallback that always takes the last index.
FallbackEndIdxLast(n, start_idx) == n - 1

\* fitting.py:274-277
FallbackEndIdx(n, start_idx) ==
  IF n > start_idx + 5 THEN start_idx + 5 ELSE n - 1

\* Locals that keep the best window of the analyzer's previous search.
KeptLocals(start_idx) ==
  [start_idx |-> start_idx, end_idx |-> start_idx + 2,
   best_end_idx |-> search.best_end_idx,
   max_interval_length |-> search.max_interval_length]

\* fitting.py:232-238: the loop's locals, set anew by every call.
FreshLocals(start_idx) ==
  [start_idx |-> start_idx, end_idx |-> start_idx + 2,
   best_end_idx |-> start_idx + 1,
   max_interval_length |-> 0]

\* fitting.py:215-235: the checks before the loop, and the loop's locals.
SearchCheck ==
  /\ fit_pc = "search"
  /\ LET lag_times == msd_results.lag_time
         n == Len(lag_times)
         start_idx_array == StartIdxArray(lag_times, fit_window.start_time)
         start_idx == CHOOSE i \in start_idx_array : \A j \in start_idx_array : i <= j
         error == IF TooFewPoints(n) THEN "TooFewPoints"
                  ELSE IF start_idx_array = {} THEN "StartBeyondData"
                  ELSE IF n - start_idx < 2 THEN "TooFewAfterStart"
                  ELSE ""
     IN  IF error # ""
         THEN /\ search_result' = SearchRaise(error)
              /\ fit_pc' = "handler"
              /\ UNCHANGED search
         ELSE /\ search' = FreshLocals(start_idx)
              /\ fit_pc' = "loop"
              /\ UNCHANGED search_result
  /\ UNCHANGED << calcVars, appVars, past, fitInputs, fit_window, fit_result, fit_detail >>

\* fitting.py:238-270: one iteration of the loop over the end indices.
TryWindow ==
  /\ fit_pc = "loop"
  /\ search.end_idx < Len(msd_results.lag_time)
  /\ LET start_idx == search.start_idx
         end_idx == search.end_idx
         x == SubSeq(msd_results.lag_time, start_idx + 1, end_idx + 1)
         y == SubSeq(msd_results.rdc, start_idx + 1, end_idx + 1)
         current_interval_length == end_idx - start_idx + 1
     IN  search' =
           IF PolyfitRaises(msd_results.nan, start_idx, end_idx)
           THEN SkipFailedWindow(search)
           ELSE IF Improves(RSquared(x, y), fit_settings.r_squared_threshold,
                            current_interval_length, search.max_interval_length)
           THEN [search EXCEPT !.max_interval_length = current_interval_length,
                               !.best_end_idx = end_idx,
                               !.end_idx = @ + 1]
           ELSE [search EXCEPT !.end_idx = @ + 1]
  /\ UNCHANGED << calcVars, appVars, past, fitInputs, fit_pc, search_result, fit_window, fit_result,
                  fit_detail >>

\* fitting.py:272-280: the fallback index and the return; the caller stores
\* the value as its end_time (fitting.py:30, :319).
SearchFinish ==
  /\ fit_pc = "loop"
  /\ search.end_idx >= Len(msd_results.lag_time)
  /\ LET lag_times == msd_results.lag_time
         best_end_idx == IF search.max_interval_length = 0
                         THEN FallbackEndIdx(Len(lag_times), search.start_idx)
                         ELSE search.best_end_idx
         value == RInt(lag_times[best_end_idx + 1])
     IN  /\ search' = [search EXCEPT !.best_end_idx = best_end_idx]
         /\ search_result' = SearchReturn(value)
         /\ fit_window' = [fit_window EXCEPT !.end_time = value]
  /\ fit_pc' = "window"
  /\ UNCHANGED << calcVars, appVars, past, fitInputs, fit_result, fit_detail >>

\* ------------------------------- fitting engine: fit_msd, analyze_scaling

\* fitting.py:308   1e-6
SmallStartTime == << 1, 1000000 >>

\* The caller's start time taken as it is.
ScalingStartTimeOfCaller(lag_time, start_time) == RInt(start_time)

\* fitting.py:300-308: analyze_scaling's start time.
ScalingStartTime(lag_time, start_time) ==
  IF start_time <= 0
  THEN LET non_zero_indices == { i \in 1..Len(lag_time) : lag_time[i] > 0 }
       IN  IF non_zero_indices # {}
           THEN RInt(lag_time[CHOOSE i \in non_zero_indices :
                                \A j \in non_zero_indices : i <= j])
           ELSE SmallStartTime
  ELSE RInt(start_time)

\* fitting.py:19-42: fit_msd up to the choice of the end time.
FitMsdEnter ==
  /\ fit_op = "fit_msd"
  /\ fit_pc = "idle"
  /\ fit_window' = [start_time |-> RInt(fit_settings.start_time),
                    end_time |-> IF fit_settings.auto_fit THEN Zero
                                 ELSE RInt(fit_settings.end_time)]
  /\ fit_pc' = IF fit_settings.auto_fit THEN "search" ELSE "window"
  /\ UNCHANGED << calcVars, appVars, past, fitInputs, search, search_result, fit_result, fit_detail >>

\* A supplied fit result that is never used.
UsesFitResultNever(results) == FALSE

\* fitting.py:311   if fitting_results and 'end_time' in fitting_results
UsesFitResult(results) == results.given

\* fitting.py:294-331: analyze_scaling up to the choice of the end time.
AnalyzeScalingEnter ==
  /\ fit_op = "analyze_scaling"
  /\ fit_pc = "idle"
  /\ LET start_time == ScalingStartTime(msd_results.lag_time, fit_settings.start_time)
     IN  IF UsesFitResult(fitting_results)
         THEN /\ fit_window' = [start_time |-> start_time,
                                end_time |-> fitting_results.end_time]
              /\ fit_pc' = "window"
         ELSE /\ fit_window' = [start_time |-> start_time,
                                end_time |-> IF fit_settings.auto_fit THEN Zero
                                             ELSE RInt(fit_settings.end_time)]
              /\ fit_pc' = IF fit_settings.auto_fit THEN "search" ELSE "window"
  /\ UNCHANGED << calcVars, appVars, past, fitInputs, search, search_result, fit_result, fit_detail >>

\* The default end time without the clamp to the data.
FallbackEndTimeUnclamped(start_time, lag_time) == RMul(RInt(10), start_time)

\* fitting.py:38 and :327   min(start_time * 10, lag_time[-1])
FallbackEndTime(start_time, lag_time) ==
  RMin(RMul(RInt(10), start_time), RInt(lag_time[Len(lag_time)]))

\* fitting.py:36-39 and :325-328: the handler of a search that raised;
\* lag_time[-1] of an empty array raises an IndexError out of the handler.
AutoFallback ==
  /\ fit_pc = "handler"
  /\ IF msd_results.lag_time = << >>
     THEN /\ fit_result' = FitRaise("IndexError")
          /\ fit_pc' = "done"
          /\ UNCHANGED fit_window
     ELSE /\ fit_window' = [fit_window EXCEPT !.end_time =
                              FallbackEndTime(fit_window.start_time, msd_results.lag_time)]
          /\ fit_pc' = "window"
          /\ UNCHANGED fit_result
  /\ UNCHANGED << calcVars, appVars, past, fitInputs, search, search_result, fit_detail >>

\* The end time taken as it is.
ClampEndNone(end_time, lag_time) == end_time

\* fitting.py:45 and :334   min(end_time, lag_time[-1])
ClampEnd(end_time, lag_time) == RMin(end_time, RInt(lag_time[Len(lag_time)]))

\* fitting.py:48 and :337: the indices (from 1) the mask selects.
Mask(lag_time, start_time, end_time) ==
  { i \in 1..Len(lag_time) :
      RLeq(start_time, RInt(lag_time[i])) /\ RLeq(RInt(lag_time[i]), end_time) }

\* fitting.py:44-53 and :333-342: the clamp, the mask and the window check.
SelectWindow ==
  /\ fit_pc = "window"
  /\ IF msd_results.lag_time = << >>
     THEN /\ fit_result' = FitRaise("IndexError")
          /\ fit_pc' = "done"
          /\ UNCHANGED fit_window
     ELSE LET end_time == ClampEnd(fit_window.end_time, msd_results.lag_time)
          IN  /\ fit_window' = [fit_window EXCEPT !.end_time = end_time]
              /\ IF Cardinality(Mask(msd_results.lag_time, fit_window.start_time,
                                     end_time)) < 2
                 THEN /\ fit_result' = FitRaise("InsufficientWindow")
                      /\ fit_pc' = "done"
                 ELSE /\ fit_pc' = "fit"
                      /\ UNCHANGED fit_result
  /\ UNCHANGED << calcVars, appVars, past, fitInputs, search, search_result, fit_detail >>

\* fitting.py:73, :116, :166 and :366   the factor 1.2 of the dense curve
CurveMargin == << 6, 5 >>

\* fitting.py:83-99, :126-142, :176-192: the model and the parameters V and L
\* of the record (None unless the model has them), and the ends of its dense
\* curve np.linspace(0, end_time * 1.2, 100).
FitDetail(model_type, end_time) ==
  [model |-> model_type,
   V |-> IF model_type = "drift" THEN "value" ELSE "None",
   L |-> IF model_type = "confined" THEN "value" ELSE "None",
   curve_from |-> Zero,
   curve_to |-> RMul(end_time, CurveMargin)]

\* fitting.py:366, :377-387: scaling_results has no model, V or L; its dense
\* curve is np.logspace(log10(start_time), log10(end_time * 1.2), 100).
ScalingDetail(start_time, end_time) ==
  [model |-> "", V |-> "absent", L |-> "absent",
   curve_from |-> start_time,
   curve_to |-> RMul(end_time, CurveMargin)]

\* fitting.py:55-199: the least-squares fit of the model, which converges or
\* fails on the windowed MSD values, and the result record; a model type
\* that is none of the three raises inside the try, and the except wraps it
\* like a failed fit.
FitMsdCurve ==
  /\ fit_op = "fit_msd"
  /\ fit_pc = "fit"
  /\ LET model_type == fit_settings.model_type
     IN  IF model_type \in KnownModels
         THEN \E converges \in BOOLEAN :
                IF converges
                THEN /\ fit_result' = FitResult(fit_window.start_time, fit_window.end_time)
                     /\ fit_detail' = FitDetail(model_type, fit_window.end_time)
                ELSE /\ fit_result' = FitRaise("FitFailed")
                     /\ UNCHANGED fit_detail
         ELSE /\ fit_result' = FitRaise("UnknownModel")
              /\ UNCHANGED fit_detail
  /\ fit_pc' = "done"
  /\ UNCHANGED << calcVars, appVars, past, fitInputs, search, search_result, fit_window >>

\* fitting.py:343-390: the log-log regression; scaling_results carries no
\* start or end time.
ScalingRegression ==
  /\ fit_op = "analyze_scaling"
  /\ fit_pc = "fit"
  /\ \E succeeds \in BOOLEAN :
       IF succeeds
       THEN /\ fit_result' = FitResult(Zero, Zero)
            /\ fit_detail' = ScalingDetail(fit_window.start_time, fit_window.end_time)
       ELSE /\ fit_result' = FitRaise("ScalingFailed")
            /\ UNCHANGED fit_detail
  /\ fit_pc' = "done"
  /\ UNCHANGED << calcVars, appVars, past, fitInputs, search, search_result, fit_window >>

NextFit ==
  \/ FitMsdEnter
  \/ AnalyzeScalingEnter
  \/ SearchCheck
  \/ TryWindow
  \/ SearchFinish
  \/ AutoFallback
  \/ SelectWindow
  \/ FitMsdCurve
  \/ ScalingRegression

SpecFit == InitFit /\ [][NextFit]_vars

\* ------------------------- fitting engine: several calls on one analyzer

\* The curves of the calls: one whose first three points only lie on a line,
\* a straight line, and one too short for the search.
TwiceCurves ==
  { [lag_time |-> LagGrid(6), rdc |-> << 0, 1, 2, 0, 0, 0 >>, nan |-> {}],
    [lag_time |-> LagGrid(4), rdc |-> << 1, 2, 3, 4 >>, nan |-> {}],
    [lag_time |-> LagGrid(2), rdc |-> << 0, 1 >>, nan |-> {}] }

TwiceSettings ==
  { [auto_fit |-> TRUE, start_time |-> st, end_time |-> DefaultEndTime,
     r_squared_threshold |-> << 7, 10 >>, model_type |-> "brownian"] : st \in {0, 1} }

\* The first of the calls made on one FittingAnalyzer (main_window.py:84).
InitFitTwice ==
  /\ trajectories = << >>
  /\ time_dtype = "float64"
  /\ dimension = 2
  /\ excluded_particles = [is_none |-> TRUE, ids |-> {}]
  /\ progress_callback = "none"
  /\ concurrent = FALSE
  /\ n_cores = 1
  /\ InitCalls
  /\ fit_op \in {"fit_msd", "analyze_scaling"}
  /\ msd_results \in TwiceCurves
  /\ fit_settings \in TwiceSettings
  /\ fitting_results = NoFittingResults
  /\ fit_pc = "idle"
  /\ search = NoSearch
  /\ search_result = NoSearchResult
  /\ fit_window = NoWindow
  /\ fit_result = FitPending
  /\ fit_detail = NoDetail
  /\ past = << >>
  /\ InitAppIdle

\* The arguments and the outcome of the call's range search
\* (fitting.py:30-35, :319-324).
SearchRecord ==
  [lag_times |-> msd_results.lag_time, rdc_values |-> msd_results.rdc,
   nan |-> msd_results.nan, start_time |-> fit_window.start_time,
   r_squared_threshold |-> fit_settings.r_squared_threshold,
   result |-> search_result]

\* main_window.py:382 and :423: the call is over and the same analyzer is
\* called again, on any input. The frame of the call that returned is gone;
\* what its locals held is not read again.
CallAgain ==
  /\ fit_pc = "done"
  /\ Len(past) + 1 < NumFits
  /\ past' = Append(past, SearchRecord)
  /\ fit_op' \in {"fit_msd", "analyze_scaling"}
  /\ msd_results' \in TwiceCurves
  /\ fit_settings' \in TwiceSettings
  /\ fit_pc' = "idle"
  /\ search_result' = NoSearchResult
  /\ fit_window' = NoWindow
  /\ fit_result' = FitPending
  /\ fit_detail' = NoDetail
  /\ UNCHANGED << calcVars, appVars, fitting_results, search >>

NextFitTwice ==
  \/ FitMsdEnter
  \/ AnalyzeScalingEnter
  \/ SearchCheck
  \/ TryWindow
  \/ SearchFinish
  \/ AutoFallback
  \/ SelectWindow
  \/ FitMsdCurve
  \/ ScalingRegression
  \/ CallAgain

SpecFitTwice == InitFitTwice /\ [][NextFitTwice]_vars

\* ------------------------------------------------------- the main window

\* The exponents analyze_scaling returns: values on both sides of and on the
\* two regime limits, and NaN (np.polyfit on a window holding a zero MSD
\* value, whose logarithm is -inf).
AlphaChoices == { Number(Rat(n, 100)) : n \in {89, 90, 100, 110, 111} } \cup { NaN }

SubDiffusiveBelow == Number(Rat(9, 10))
SuperDiffusiveAbove == Number(Rat(11, 10))

\* helpers.py:138-143
ExportRegime(alpha) ==
  IF Less(alpha, SubDiffusiveBelow) THEN "sub"
  ELSE IF LessEq(SubDiffusiveBelow, alpha) /\ LessEq(alpha, SuperDiffusiveAbove) THEN "normal"
  ELSE "super"

\* report_generator.py:351-356 and 504-509
ReportRegime(alpha) ==
  IF Less(alpha, SubDiffusiveBelow) THEN "sub"
  ELSE IF Less(SuperDiffusiveAbove, alpha) THEN "super"
  ELSE "normal"

\* plot_widget.py:538-544
PlotRegime(alpha) ==
  IF Less(alpha, SubDiffusiveBelow) THEN "sub"
  ELSE IF LessEq(SubDiffusiveBelow, alpha) /\ LessEq(alpha, SuperDiffusiveAbove) THEN "normal"
  ELSE "super"

\* main_window.py:512-531
SetButtonsEnabled(enabled, has_trajectories, has_msd, has_fitting) ==
  [load |-> enabled,
   calculate |-> enabled /\ has_trajectories,
   fit |-> enabled /\ has_msd,
   scaling |-> enabled /\ has_msd,
   save |-> enabled /\ has_fitting]

\* app_state.py:95-99
ResetResults(st) ==
  [st EXCEPT !.msd_results = 0, !.fitting_results = NoFit, !.scaling_results = NoScaling]

\* The window with no call in progress on the calculator or the analyzer.
InitApp ==
  /\ trajectories = << TA >>
  /\ time_dtype = "float64"
  /\ dimension = 2
  /\ excluded_particles = [is_none |-> TRUE, ids |-> {}]
  /\ progress_callback = "worker"
  /\ concurrent = FALSE
  /\ n_cores = 1
  /\ InitCalls
  /\ InitFitIdle
  /\ InitAppIdle

\* main_window.py:225-274: a file is chosen and loaded; clearing the particle
\* list may or may not announce an empty selection.
LoadData ==
  /\ buttons.load
  /\ \E announced \in BOOLEAN :
       state' = [ResetResults(state) EXCEPT
                   !.trajectories = TRUE,
                   !.excluded_particles = IF announced THEN FALSE ELSE @]
  /\ panel' = [panel EXCEPT !.excluded = FALSE]
  /\ buttons' = [buttons EXCEPT !.calculate = TRUE, !.fit = FALSE,
                                !.scaling = FALSE, !.save = FALSE]
  /\ UNCHANGED << calcVars, fitVars, msd_worker, msd_count, output >>

\* main_window.py:276-306: the worker is created and started.
CalculateMsd ==
  /\ buttons.calculate
  /\ state.trajectories
  /\ msd_worker # "running"
  /\ msd_count < MaxCalcs
  /\ buttons' = SetButtonsEnabled(FALSE, FALSE, FALSE, FALSE)
  /\ state' = [state EXCEPT !.excluded_particles = panel.excluded]
  /\ msd_worker' = "running"
  /\ UNCHANGED << calcVars, fitVars, panel, msd_count, output >>

\* main_window.py:315-353: the slot of the worker's finished signal.
OnMsdCalculationFinished ==
  /\ msd_worker = "running"
  /\ msd_count' = msd_count + 1
  /\ state' = [state EXCEPT !.msd_results = msd_count + 1]
  /\ buttons' = SetButtonsEnabled(TRUE, TRUE, TRUE, FALSE)
  /\ msd_worker' = "finished"
  /\ UNCHANGED << calcVars, fitVars, panel, output >>

\* main_window.py:355-361: the slot of the worker's error signal.
OnMsdCalculationError ==
  /\ msd_worker = "running"
  /\ buttons' = SetButtonsEnabled(TRUE, TRUE, FALSE, FALSE)
  /\ msd_worker' = "failed"
  /\ UNCHANGED << calcVars, fitVars, state, panel, msd_count, output >>

\* main_window.py:363-408: a fit that returns; one that raises leaves the
\* window as it was.
FitMsd ==
  /\ buttons.fit
  /\ state.msd_results # 0
  /\ panel.model_type \in KnownModels
  /\ LET detail == FitDetail(panel.model_type, RInt(1))
     IN  state' = [state EXCEPT !.fitting_results =
                     [given |-> TRUE, from_msd |-> state.msd_results,
                      model |-> detail.model, V |-> detail.V, L |-> detail.L]]
  /\ buttons' = [buttons EXCEPT !.scaling = TRUE, !.save = TRUE]
  /\ UNCHANGED << calcVars, fitVars, panel, msd_worker, msd_count, output >>

\* main_window.py:410-445: a scaling analysis that returns; its window ends
\* at the end_time of the stored fit result when there is one
\* (fitting.py:311-313), and the log-log plot shows the regime.
AnalyzeScaling ==
  /\ buttons.scaling
  /\ state.msd_results # 0
  /\ \E alpha \in AlphaChoices :
       /\ state' = [state EXCEPT !.scaling_results =
                      [given |-> TRUE, from_msd |-> state.msd_results,
                       window_of |-> IF UsesFitResult(state.fitting_results)
                                     THEN state.fitting_results.from_msd
                                     ELSE state.msd_results,
                       alpha |-> alpha]]
       /\ output' = [output EXCEPT !.plot_regime = PlotRegime(alpha)]
  /\ UNCHANGED << calcVars, fitVars, panel, buttons, msd_worker, msd_count >>

\* helpers.py:84-100, report_generator.py:275-288, 445-454: the row of the
\* model selected in the settings subscripts and formats the stored value.
FormatsNone(model_type, results) ==
  \/ model_type = "drift" /\ results.V = "None"
  \/ model_type = "confined" /\ results.L = "None"

\* main_window.py:447-510: the Excel export, then the PDF report; the first
\* exception ends the save.
SaveResults ==
  /\ buttons.save
  /\ state.msd_results # 0
  /\ state.fitting_results.given
  /\ LET model_type == panel.model_type
         fit == state.fitting_results
         scaling == state.scaling_results
     IN  output' =
           IF FormatsNone(model_type, fit)
           THEN [output EXCEPT !.export = "TypeError", !.V_row = FALSE, !.L_row = FALSE,
                               !.export_regime = "", !.report = "", !.report_regime = "",
                               !.msd_of = 0, !.fit_of = 0, !.scaling_of = 0]
           ELSE [output EXCEPT
                   !.export = "written",
                   !.V_row = (model_type = "drift"),
                   !.L_row = (model_type = "confined"),
                   !.export_regime = IF scaling.given THEN ExportRegime(scaling.alpha) ELSE "",
                   !.report = IF scaling.given THEN "written" ELSE "TypeError",
                   !.report_regime = IF scaling.given THEN ReportRegime(scaling.alpha) ELSE "",
                   !.msd_of = state.msd_results,
                   !.fit_of = fit.from_msd,
                   !.scaling_of = IF scaling.given THEN scaling.from_msd ELSE 0]
  /\ UNCHANGED << calcVars, fitVars, state, panel, buttons, msd_worker, msd_count >>

\* settings_panel.py:49-52: another model is selected in the combo box.
SelectModel(m) ==
  /\ m # panel.model_type
  /\ panel' = [panel EXCEPT !.model_type = m]
  /\ UNCHANGED << calcVars, fitVars, state, buttons, msd_worker, msd_count, output >>

\* settings_panel.py:222-226, main_window.py:533-554: the selection of the
\* particle list changes.
ExcludedParticlesChanged ==
  /\ state.trajectories
  /\ panel' = [panel EXCEPT !.excluded = ~@]
  /\ state' = [state EXCEPT !.excluded_particles = ~panel.excluded]
  /\ UNCHANGED << calcVars, fitVars, buttons, msd_worker, msd_count, output >>

NextApp ==
  \/ LoadData
  \/ CalculateMsd
  \/ OnMsdCalculationFinished
  \/ OnMsdCalculationError
  \/ FitMsd
  \/ AnalyzeScaling
  \/ SaveResults
  \/ \E m \in ModelTypes : SelectModel(m)
  \/ ExcludedParticlesChanged

SpecApp == InitApp /\ [][NextApp]_vars

\* ------------------------------------------------- reference computations

\* Whether computing a particle's curve raises.
Fails(pid) == SingleMsd(trajectories[pid], dimension).raised

\* The curves of the given particles, as individual_msd holds them.
CurvesOf(pids) ==
  [pid \in pids |->
    LET r == SingleMsd(trajectories[pid], dimension)
    IN  [lag_time |-> r.lag_time, msd |-> r.msd]]

\* What calculate makes of the curves of the given particles
\* (msd_calculator.py:147-212): the result, or the error of the RDC.
ResultFrom(pids) ==
  LET individual == CurvesOf(pids)
      agg == Aggregate(individual,
                       UNION { Elements(individual[pid].lag_time) : pid \in pids })
      rdc == CalculateRdcVectorized(agg.lag_time, agg.msd, dimension,
                                    LagTimeDtype(agg.lag_time, time_dtype))
  IN  IF rdc.raised THEN Raise("TypeError")
      ELSE Return(MsdResults(individual, agg, rdc))

\* What the serial branch (msd_calculator.py:120-141) makes of the caller's
\* input when no callback is given.
SerialOutcome ==
  LET ids == Elements(FilteredIds(trajectories, excluded_particles))
  IN  IF ids = {} THEN Raise("EmptyInput")
      ELSE IF \E pid \in ids : Fails(pid) THEN Raise("Particle")
      ELSE ResultFrom(ids)

\* What the parallel branch (msd_calculator.py:88-119) makes of it.
ParallelOutcome ==
  LET ids == Elements(FilteredIds(trajectories, excluded_particles))
  IN  IF ids = {} THEN Raise("EmptyInput")
      ELSE ResultFrom({ pid \in ids : ~Fails(pid) })

\* What calculate makes of it on the path its input selects.
OutcomeWithoutCallback ==
  IF UseParallel(trajectories, FilteredIds(trajectories, excluded_particles))
  THEN ParallelOutcome ELSE SerialOutcome

\* ----------------------------------------------------------------- claims

\* The call is inside calculate, past the is_calculating guard.
PastGuard(c) ==
  pc[c] \in {"set", "filter", "start", "serial", "submit", "collect",
             "shutdown", "average", "aggregate", "rdc", "finally"}

\* calculate has returned or raised, after passing the guard.
Finished(c) == pc[c] \in {"returned", "done"} /\ outcome[c].kind # "null"

ParallelPath(c) == DOMAIN futures[c] # {}

NonDecreasing(seq) == \A i \in 1..(Len(seq) - 1) : seq[i] <= seq[i + 1]

StrictlyIncreasing(seq) == \A i \in 1..(Len(seq) - 1) : seq[i] < seq[i + 1]

\* C1: with concurrent calls on one instance, at most one call is past the
\* is_calculating guard at any time.
C1_SingleFlight == Cardinality({ c \in Calls : PastGuard(c) }) <= 1

\* C2: when computing one particle's MSD fails, calculate drops that particle
\* and still returns a result built from the remaining particles, on the
\* serial as on the parallel path.
C2_FailureDropsParticle ==
  \A c \in Calls :
    ( /\ Finished(c)
      /\ outcome[c].error \notin {"Callback", "TypeError"}
      /\ \E pid \in Elements(particle_ids[c]) : Fails(pid) )
    => /\ outcome[c].kind = "result"
       /\ DOMAIN outcome[c].result.individual
            = { pid \in Elements(particle_ids[c]) : ~Fails(pid) }

\* C3: a progress callback that raises does not make calculate raise, and the
\* call returns what it returns without a callback.
C3_CallbackFailureContained ==
  \A c \in Calls : Finished(c) => outcome[c] = OutcomeWithoutCallback

\* C4 as stated: in a successful call with a progress sink the percentages are
\* non-decreasing, lie in [0,100], and the last one reported before calculate
\* returns is 100.
C4_LastReportBeforeReturnIs100 ==
  \A c \in Calls :
    (progress_callback # "none" /\ pc[c] = "returned" /\ outcome[c].kind = "result")
    => /\ NonDecreasing(reports[c])
       /\ \A i \in 1..Len(reports[c]) : reports[c][i] \in 0..100
       /\ reports[c][Len(reports[c])] = 100

\* C4 amended: the percentages a progress sink receives are non-decreasing and
\* lie in [0,100]; the last one calculate reports before it returns a result
\* is 95, and 100 is reported by the worker's run() after calculate returned.
C4_ProgressMonotone ==
  \A c \in Calls :
    /\ NonDecreasing(reports[c])
    /\ \A i \in 1..Len(reports[c]) : reports[c][i] \in 0..100
    /\ (progress_callback # "none" /\ pc[c] = "returned" /\ outcome[c].kind = "result")
         => reports[c][Len(reports[c])] = 95
    /\ (pc[c] = "done" /\ outcome[c].kind = "result")
         => reports[c][Len(reports[c])] = 100

\* A worker-driven call on the parallel path ended with a result, with two
\* pool tasks reported.
C4_Witness ==
  \E c \in Calls :
    /\ pc[c] = "done"
    /\ outcome[c].kind = "result"
    /\ Cardinality(DOMAIN futures[c]) >= 2
    /\ Len(reports[c]) = 7

\* C5: for the same trajectories, dimension and exclusion set the outcome is
\* the one the serial path gives, whichever path is taken and in whatever
\* order the pool tasks complete.
C5_PathIndependent ==
  \A c \in Calls :
    (Finished(c) /\ outcome[c].error # "Callback") => outcome[c] = SerialOutcome

\* C6: calculate raises the empty-input error exactly when every particle id
\* of the map is excluded (an empty map included), and then no progress was
\* reported by calculate and no particle was computed.
C6_EmptyInputError ==
  \A c \in Calls :
    /\ (pc[c] \in {"start", "serial", "submit", "collect", "shutdown", "average",
                   "aggregate", "rdc", "finally"} \/ Finished(c))
         => ( (outcome[c].kind = "raise" /\ outcome[c].error = "EmptyInput")
              <=> \A pid \in DOMAIN trajectories :
                     ~excluded_particles.is_none /\ pid \in excluded_particles.ids )
    /\ (outcome[c].kind = "raise" /\ outcome[c].error = "EmptyInput")
         => /\ reports[c] = IF progress_callback = "worker"
                            THEN << WorkerStartPercent >> ELSE << >>
            /\ DOMAIN individual_msd[c] = {}
            /\ DOMAIN futures[c] = {}
            /\ completed[c] = 0
            /\ aggregate[c] = NoAggregate

\* The empty-input error was raised for a map whose particles are all excluded.
C6_Witness ==
  \E c \in Calls :
    /\ Finished(c)
    /\ outcome[c].error = "EmptyInput"
    /\ DOMAIN trajectories # {}

Unfinished(c) == InState(c, "queued") \cup InState(c, "running")

\* C7 as stated: on the parallel path no aggregate state, the lag-time union
\* included, is updated while a submitted task has not completed.
C7_NoAggregateStateWhileRunning ==
  [][ \A c \in Calls :
        Unfinished(c) # {}
        => (all_lag_times'[c] = all_lag_times[c] /\ aggregate'[c] = aggregate[c]) ]_vars

\* C7 amended: the sorted lag times and the sum, count, mean and std buckets
\* are built only after every submitted task has completed and been
\* collected; only the set of lag times seen and the individual curves grow
\* as each task completes.
C7_BarrierBeforeBuckets ==
  \A c \in Calls :
    /\ Unfinished(c) # {} => (aggregate[c] = NoAggregate /\ pc[c] # "aggregate")
    /\ (ParallelPath(c) /\ pc[c] \in {"average", "aggregate", "rdc"})
         => /\ \A pid \in DOMAIN futures[c] : futures[c][pid].state = "collected"
            /\ DOMAIN futures[c] = Elements(particle_ids[c])

\* The buckets of a parallel call with two tasks have been built.
C7_Witness ==
  \E c \in Calls :
    /\ Cardinality(DOMAIN futures[c]) >= 2
    /\ pc[c] = "rdc"
    /\ aggregate[c].lag_time # << >>

\* C8: in every result the aggregate lag times are strictly increasing,
\* every count is at least 1, and mean, std, count and RDC are as long as
\* the lag times.
C8_AggregateShape ==
  \A c \in Calls :
    outcome[c].kind = "result"
    => LET r == outcome[c].result
           n == Len(r.average.lag_time)
       IN  /\ StrictlyIncreasing(r.average.lag_time)
           /\ \A i \in 1..Len(r.stats.count) : r.stats.count[i] >= 1
           /\ Len(r.average.msd) = n
           /\ Len(r.average.std) = n
           /\ Len(r.stats.count) = n
           /\ Len(r.rdc.rdc) = n
           /\ r.stats.lag_time = r.average.lag_time
           /\ r.rdc.lag_time = r.average.lag_time

\* A result aggregated from two particles with different time bases.
C8_Witness ==
  \E c \in Calls :
    /\ outcome[c].kind = "result"
    /\ Cardinality(DOMAIN outcome[c].result.individual) = 2
    /\ Len(outcome[c].result.average.lag_time) = 3
    /\ \E i \in 1..3 : outcome[c].result.stats.count[i] = 2

\* C9: for every aggregate lag time, count is the number of included
\* particles whose curve has a value at that lag time.
C9_CountIsParticleCount ==
  \A c \in Calls :
    outcome[c].kind = "result"
    => LET r == outcome[c].result
       IN  \A i \in 1..Len(r.stats.lag_time) :
             r.stats.count[i] =
               Cardinality({ pid \in DOMAIN r.individual :
                               r.stats.lag_time[i] \in Elements(r.individual[pid].lag_time) })

\* C10: when exactly one particle is aggregated, std = 0 and count = 1 at
\* every lag time and the mean is that particle's own MSD.
C10_SingleParticle ==
  \A c \in Calls :
    (outcome[c].kind = "result" /\ Cardinality(DOMAIN outcome[c].result.individual) = 1)
    => LET r == outcome[c].result
           pid == CHOOSE q \in DOMAIN r.individual : TRUE
       IN  /\ \A i \in 1..Len(r.average.lag_time) :
                /\ r.average.std[i] = SqrtOf(Zero)
                /\ r.stats.count[i] = 1
           /\ \A j \in 1..Len(r.individual[pid].lag_time) :
                \E i \in 1..Len(r.average.lag_time) :
                  /\ r.average.lag_time[i] = r.individual[pid].lag_time[j]
                  /\ r.average.msd[i] = r.individual[pid].msd[j]

\* C11: a particle's curve has at most n-1 points for a trajectory of n
\* samples, every retained lag time is > 0 and the lag times are strictly
\* increasing, every retained msd is > 0, and each retained point is the lag
\* t[delta]-t[0] paired with the mean squared displacement over the index
\* pairs (j, j+delta) (delta squared on the long straight line).
C11_SingleCurveShape ==
  \A c \in Calls : \A pid \in DOMAIN individual_msd[c] :
    LET curve == individual_msd[c][pid]
        data == trajectories[pid]
        n == Len(data.t)
        positions == PositionsOf(data, dimension)
        m == Len(curve.lag_time)
    IN  /\ m <= n - 1
        /\ Len(curve.msd) = m
        /\ \A i \in 1..m : curve.lag_time[i] > 0 /\ RPositive(curve.msd[i])
        /\ StrictlyIncreasing(curve.lag_time)
        /\ IF data = TLong
           THEN \A i \in 1..m : curve.lag_time[i] = i /\ curve.msd[i] = << i * i, 1 >>
           ELSE \A i \in 1..m : \E delta \in 1..(n - 1) :
                  /\ curve.lag_time[i] = data.t[delta + 1] - data.t[1]
                  /\ curve.msd[i] = MeanSquaredDisplacement(positions, delta)

\* C12: a call that gets as far as the RDC returns a result, on an integer as
\* on a fractional time base, in which rdc[0] is the forward difference,
\* rdc[n-1] the backward difference and every interior rdc[i] the central
\* difference of the aggregate msd, each divided by 2*dimension; with one
\* aggregate point the RDC is zero.
C12_RdcFiniteDifferences ==
  \A c \in Calls :
    (Finished(c) /\ outcome[c].error \notin {"Callback", "EmptyInput", "Particle"})
    => /\ outcome[c].kind = "result"
       /\ LET r == outcome[c].result
              lag == r.rdc.lag_time
              msd == r.average.msd
              rdc == r.rdc.rdc
              n == Len(lag)
              Diff(a, b) == RDivInt(RDivInt(RSub(msd[b], msd[a]), lag[b] - lag[a]),
                                    2 * dimension)
          IN  /\ Len(rdc) = n
              /\ n = 1 => rdc[1] = Zero
              /\ n >= 2 => /\ rdc[1] = Diff(1, 2)
                           /\ rdc[n] = Diff(n - 1, n)
                           /\ \A i \in 2..(n - 1) : rdc[i] = Diff(i - 1, i + 1)

\* The ids of the caller's map that the caller's exclusion list does not name.
NotExcluded ==
  { pid \in DOMAIN trajectories :
      excluded_particles.is_none \/ pid \notin excluded_particles.ids }

\* C13: no excluded particle id appears in the individual curves or
\* contributes to an aggregate bucket, every particle that is not excluded
\* and has a computed curve appears in the result, and no step of calculate
\* changes the trajectories map, the exclusion list or the calculator's
\* stored n_cores.
C13_ExclusionFrame ==
  /\ [](\A c \in Calls :
          /\ DOMAIN individual_msd[c] \subseteq NotExcluded
          /\ outcome[c].kind = "result"
               => LET kept == { pid \in NotExcluded : ~Fails(pid) }
                      curves == CurvesOf(kept)
                      agg == Aggregate(curves,
                               UNION { Elements(curves[pid].lag_time) : pid \in kept })
                  IN  /\ outcome[c].result.individual = curves
                      /\ outcome[c].result.average.lag_time = agg.lag_time
                      /\ outcome[c].result.average.msd = agg.msd
                      /\ outcome[c].result.average.std = agg.std
                      /\ outcome[c].result.stats.count = agg.count)
  /\ [][ /\ trajectories' = trajectories
         /\ time_dtype' = time_dtype
         /\ excluded_particles' = excluded_particles
         /\ n_cores' = n_cores ]_vars

\* A result was returned for a map of two particles of which one is excluded.
C13_Witness ==
  \E c \in Calls :
    /\ outcome[c].kind = "result"
    /\ Cardinality(DOMAIN trajectories) = 2
    /\ Cardinality(NotExcluded) = 1
    /\ DOMAIN outcome[c].result.individual = NotExcluded
    /\ outcome[c].result.average.lag_time # << >>

\* ------------------------------------------ claims on the fitting engine

\* The call runs the range search: auto_fit without a supplied fit result.
RunsSearch == fit_op # "none" /\ fit_settings.auto_fit /\ ~fitting_results.given

\* The range search of the call is over: it returned or raised.
SearchOver == RunsSearch /\ fit_pc \in {"handler", "window", "fit", "done"}

\* The points of the curve, and the last index (from 0).
NPoints == Len(msd_results.lag_time)
LastIdx == NPoints - 1

\* Whether a lag time lies at or after the start time the search is given.
HasStart == StartIdxArray(msd_results.lag_time, fit_window.start_time) # {}

\* The start index s (from 0): the first index with lag_time >= start_time.
StartIdxOf ==
  LET arr == StartIdxArray(msd_results.lag_time, fit_window.start_time)
  IN  CHOOSE i \in arr : \A j \in arr : i <= j

\* The lag time at an index counted from 0.
LagAt(idx) == RInt(msd_results.lag_time[idx + 1])

\* The regression over the window s..e fails.
WindowFails(e) == PolyfitRaises(msd_results.nan, StartIdxOf, e)

\* The window s..e has a regression whose R^2 is at least the threshold.
WindowMeets(e) ==
  /\ ~WindowFails(e)
  /\ RLeq(fit_settings.r_squared_threshold,
          RSquared(SubSeq(msd_results.lag_time, StartIdxOf + 1, e + 1),
                   SubSeq(msd_results.rdc, StartIdxOf + 1, e + 1)))

\* The end indices in [s+2, last] whose window meets the threshold.
MeetingEnds ==
  IF HasStart THEN { e \in (StartIdxOf + 2)..LastIdx : WindowMeets(e) } ELSE {}

LargestOf(S) == CHOOSE e \in S : \A f \in S : f <= e

\* C14: when at least one end index e in [s+2, last] has a window s..e whose
\* R^2 meets the threshold, the search returns lag_times[e*] for the largest
\* such e, also when shorter or intermediate windows miss the threshold.
C14_LargestMeetingEnd ==
  (SearchOver /\ MeetingEnds # {})
  => search_result = SearchReturn(LagAt(LargestOf(MeetingEnds)))

\* The search returned the end of a window that meets the threshold although
\* a shorter window and the longest window do not.
C14_Witness ==
  /\ SearchOver
  /\ Cardinality(MeetingEnds) >= 2
  /\ \E e \in (StartIdxOf + 2)..LastIdx :
       e < LargestOf(MeetingEnds) /\ ~WindowMeets(e) /\ ~WindowFails(e)
  /\ LargestOf(MeetingEnds) < LastIdx
  /\ search_result = SearchReturn(LagAt(LargestOf(MeetingEnds)))

\* The finite RDC values from the start index on lie on one straight line.
OnStraightLine ==
  /\ msd_results.nan = {}
  /\ \A i \in (StartIdxOf + 1)..(NPoints - 2) :
       (msd_results.rdc[i + 1] - msd_results.rdc[i])
         * (msd_results.lag_time[i + 2] - msd_results.lag_time[i + 1])
       = (msd_results.rdc[i + 2] - msd_results.rdc[i + 1])
         * (msd_results.lag_time[i + 1] - msd_results.lag_time[i])

\* C15: with the threshold 0.99 and RDC values exactly on a straight line in
\* the lag time, of any slope and intercept, over at least 3 points from the
\* start index, the search returns the last lag time.
C15_LineSelectsFullWindow ==
  ( /\ SearchOver
    /\ fit_settings.r_squared_threshold = << 99, 100 >>
    /\ HasStart
    /\ NPoints - StartIdxOf >= 3
    /\ OnStraightLine )
  => search_result = SearchReturn(LagAt(LastIdx))

\* C16: when no candidate window meets the threshold, the search returns the
\* lag time at start_idx + 5, or the last lag time when the curve ends before
\* that index.
C16_FallbackWindow ==
  (SearchOver /\ search_result.kind = "return" /\ MeetingEnds = {})
  => search_result.value =
       LagAt(IF StartIdxOf + 5 <= LastIdx THEN StartIdxOf + 5 ELSE LastIdx)

\* The fallback returned the lag time at start_idx + 5 of a longer curve.
C16_Witness ==
  /\ SearchOver
  /\ search_result.kind = "return"
  /\ MeetingEnds = {}
  /\ StartIdxOf + 5 < LastIdx
  /\ search_result.value = LagAt(StartIdxOf + 5)

\* C17: the search raises its too-few-points error when given fewer than 3
\* points; given 3 or more it returns a lag time whose index is strictly
\* greater than the start index, or raises because fewer than 2 points lie at
\* or after the start time.
C17_SearchResultAfterStart ==
  SearchOver
  => /\ search_result.kind # "none"
     /\ NPoints < 3 => search_result = SearchRaise("TooFewPoints")
     /\ NPoints >= 3 =>
          \/ /\ search_result.kind = "return"
             /\ \E idx \in (StartIdxOf + 1)..LastIdx : search_result.value = LagAt(idx)
          \/ /\ search_result.kind = "raise"
             /\ Cardinality(StartIdxArray(msd_results.lag_time,
                                          fit_window.start_time)) < 2

\* The search returned the point next to a start index that is not the first.
C17_Witness ==
  /\ SearchOver
  /\ search_result.kind = "return"
  /\ StartIdxOf > 0
  /\ search_result.value = LagAt(StartIdxOf + 1)

\* C18: a regression that fails on a candidate window does not end the
\* search: every end index is visited, the search returns the end of the
\* largest window that met the threshold, also when it was recorded before
\* the failure, and the fallback window only when no window met it.
C18_FailedWindowSkipped ==
  ( /\ SearchOver
    /\ HasStart
    /\ \E e \in (StartIdxOf + 2)..LastIdx : WindowFails(e) )
  => /\ search_result.kind = "return"
     /\ search.end_idx = NPoints
     /\ search_result.value =
          LagAt(IF MeetingEnds # {} THEN LargestOf(MeetingEnds)
                ELSE IF StartIdxOf + 5 <= LastIdx THEN StartIdxOf + 5
                ELSE LastIdx)

\* The search returned the end of a window that met the threshold before a
\* later window's regression failed.
C18_Witness ==
  /\ SearchOver
  /\ HasStart
  /\ MeetingEnds # {}
  /\ \E e \in (StartIdxOf + 2)..LastIdx : WindowFails(e) /\ e > LargestOf(MeetingEnds)
  /\ search_result = SearchReturn(LagAt(LargestOf(MeetingEnds)))

\* The search of the call raised, and its caller's handler has run.
SearchRaisedHandled ==
  /\ RunsSearch
  /\ search_result.kind = "raise"
  /\ fit_pc \in {"window", "fit", "done"}

LocalStartTime ==
  IF fit_op = "analyze_scaling"
  THEN (IF fit_settings.start_time > 0 THEN RInt(fit_settings.start_time)
        ELSE IF \E i \in 1..NPoints : msd_results.lag_time[i] > 0
        THEN LagAt(CHOOSE k \in 0..LastIdx :
                     /\ msd_results.lag_time[k + 1] > 0
                     /\ \A j \in 0..(k - 1) : msd_results.lag_time[j + 1] <= 0)
        ELSE SmallStartTime)
  ELSE RInt(fit_settings.start_time)

C20_ResultWindow ==
  (fit_op = "fit_msd" /\ fit_result.kind = "result")
  => /\ fit_result.start_time = RInt(fit_settings.start_time)
     /\ ~RLeq(fit_result.end_time, fit_result.start_time)
     /\ RLeq(fit_result.end_time, LagAt(LastIdx))
     /\ ~fit_settings.auto_fit
          => fit_result.end_time = RMin(RInt(fit_settings.end_time), LagAt(LastIdx))

\* A manual fit whose end time lies beyond the data returned a result.
C20_Witness ==
  /\ fit_op = "fit_msd"
  /\ fit_result.kind = "result"
  /\ ~fit_settings.auto_fit
  /\ ~RLeq(RInt(fit_settings.end_time), LagAt(LastIdx))
  /\ fit_result.end_time = LagAt(LastIdx)

\* The call is over: it returned or raised.
FitOver == fit_op # "none" /\ fit_pc = "done"

\* The aggregate lag times that fall in [start_time, end_time], the call's
\* start time and its end time after the clamp; none on a curve without
\* points.
WindowPoints ==
  IF NPoints = 0 THEN {}
  ELSE Mask(msd_results.lag_time, fit_window.start_time,
            RMin(fit_window.end_time, LagAt(LastIdx)))

\* C21: fit_msd and analyze_scaling fail with the insufficient-data error
\* exactly when fewer than 2 aggregate lag times fall in [start_time,
\* end_time] after the clamp; that failure comes before any model or
\* regression work, and a window of 2 or more points goes on to the
\* regression.
C21_InsufficientExactly ==
  FitOver
  => /\ fit_result = FitRaise("InsufficientWindow") <=> Cardinality(WindowPoints) < 2
     /\ fit_result = FitRaise("InsufficientWindow") => fit_detail = NoDetail
     /\ Cardinality(WindowPoints) >= 2
          => \/ fit_result.kind = "result"
             \/ fit_result.error \in {"FitFailed", "ScalingFailed", "UnknownModel"}

\* C22: fit_msd called with a model type that is none of brownian, drift and
\* confined fails with the unknown-model error, which is neither the failed
\* fit's nor the insufficient-data error, on every curve with points and
\* every window, the windows of fewer than 2 points included.
C22_UnknownModelError ==
  ( /\ FitOver
    /\ fit_op = "fit_msd"
    /\ fit_settings.model_type \notin KnownModels
    /\ NPoints > 0 )
  => fit_result = FitRaise("UnknownModel")

\* The lag times in [LocalStartTime, end_time] for the call's clamped end time.
PointsFromLocalStart ==
  IF NPoints = 0 THEN {}
  ELSE { i \in 1..NPoints :
           /\ RLeq(LocalStartTime, RInt(msd_results.lag_time[i]))
           /\ RLeq(RInt(msd_results.lag_time[i]),
                   RMin(fit_window.end_time, LagAt(LastIdx))) }

\* C23: analyze_scaling works with the caller's start_time when it is > 0,
\* else with the first strictly positive aggregate lag time, or 1e-6 when no
\* lag time is positive; that value selects the window and starts the dense
\* curve.
C23_ScalingStartTime ==
  (fit_op = "analyze_scaling" /\ fit_pc # "idle")
  => /\ fit_window.start_time = LocalStartTime
     /\ (fit_pc = "done" /\ NPoints > 0)
          => (fit_result = FitRaise("InsufficientWindow")
                <=> Cardinality(PointsFromLocalStart) < 2)
     /\ fit_result.kind = "result" => fit_detail.curve_from = LocalStartTime

\* analyze_scaling, called with start_time 0 on a curve whose first lag time
\* is 0, returned a dense curve that starts at the second lag time.
C23_Witness ==
  /\ fit_op = "analyze_scaling"
  /\ fit_settings.start_time = 0
  /\ NPoints >= 3
  /\ msd_results.lag_time[1] = 0
  /\ fit_result.kind = "result"
  /\ fit_window.start_time = LagAt(1)
  /\ fit_detail.curve_from = LagAt(1)

\* The end indices e in [s+2, last] whose window s..e meets the threshold.
EndsMeetingFrom(s) ==
  { e \in (s + 2)..LastIdx :
      /\ ~PolyfitRaises(msd_results.nan, s, e)
      /\ RLeq(fit_settings.r_squared_threshold,
              RSquared(SubSeq(msd_results.lag_time, s + 1, e + 1),
                       SubSeq(msd_results.rdc, s + 1, e + 1))) }

\* The end time of the automatic rule for a start time st, on a curve with
\* points: the range search's, or min(10 * st, max lag time) when it raises.
AutoEndTime(st) ==
  LET arr == StartIdxArray(msd_results.lag_time, st)
      s == CHOOSE i \in arr : \A j \in arr : i <= j
  IN  IF NPoints < 3 \/ arr = {} \/ NPoints - s < 2
      THEN RMin(RMul(RInt(10), st), LagAt(LastIdx))
      ELSE IF EndsMeetingFrom(s) # {} THEN LagAt(LargestOf(EndsMeetingFrom(s)))
      ELSE LagAt(IF s + 5 <= LastIdx THEN s + 5 ELSE LastIdx)

\* The end time, after the clamp, of the auto/manual rule of fit_msd for a
\* start time st and the call's settings.
RuleEndTime(st) ==
  RMin(IF fit_settings.auto_fit THEN AutoEndTime(st) ELSE RInt(fit_settings.end_time),
       LagAt(LastIdx))

\* analyze_scaling has fixed its window on a curve with points.
ScalingWindowFixed ==
  fit_op = "analyze_scaling" /\ fit_pc \in {"fit", "done"} /\ NPoints > 0

SearchesOver ==
  { past[i] : i \in 1..Len(past) }
  \cup (IF fit_pc \in {"handler", "window", "fit", "done"} THEN { SearchRecord } ELSE {})

OutOfCalculate(c) == pc[c] \in {"idle", "returned", "done"}

\* The step is call c leaving calculate through the finally clause.
LeavesCalculate(c) == pc[c] = "finally" /\ pc'[c] = "returned"

\* The step is the guard turning call c away.
Rejected(c) == pc[c] = "guard" /\ pc'[c] = "returned"

\* C27: a call that passed the guard leaves calculate with is_calculating
\* false whether it returns a result or raises, so the flag is false whenever
\* no call is inside calculate and a call made then is not rejected; a call
\* is rejected only while another call is past the guard, and the rejected
\* call leaves the flag as it found it.
C27_FlagCleared ==
  /\ []((\A c \in Calls : OutOfCalculate(c)) => ~is_calculating)
  /\ [][ \A c \in Calls :
           /\ LeavesCalculate(c) => ~is_calculating'
           /\ Rejected(c) => /\ is_calculating' = is_calculating
                             /\ is_calculating
                             /\ \E d \in Calls \ {c} : PastGuard(d) ]_vars

\* One call raised and left the flag false, and another call was rejected
\* while the first was running.
C27_Witness ==
  /\ \A c \in Calls : OutOfCalculate(c)
  /\ ~is_calculating
  /\ \E c \in Calls : outcome[c].kind = "raise"
  /\ \E d \in Calls : outcome[d].kind = "null" /\ pc[d] \in {"returned", "done"}

\* ------------------------------------------- claims on the worker's signals

\* run() of the worker that made call c has ended.
RunOver(c) == progress_callback = "worker" /\ pc[c] = "done"

\* C29: every run of MSDCalculationWorker on which cancel() is not called
\* ends having emitted exactly one of finished and error, never neither and
\* never both.
C29_ExactlyOneSignal ==
  \A c \in Calls : RunOver(c) => signals[c] \in { << "finished" >>, << "error" >> }

\* ------------------------------------------- claims on the main window

C28_ResultsOfCurrentMsd ==
  /\ state.fitting_results.given
       => state.fitting_results.from_msd = state.msd_results
  /\ state.scaling_results.given
       => /\ state.scaling_results.from_msd = state.msd_results
          /\ state.scaling_results.window_of = state.msd_results
  /\ output.export = "written"
       => /\ output.fit_of = output.msd_of
          /\ output.scaling_of \in {0, output.msd_of}

\* C30: the stored fit result holds a value for V (resp. L) exactly when its
\* model is drift (resp. confined) and None otherwise; no save formats a
\* None as a number, and a save writes the V (resp. L) row only when the
\* stored fit result's model is drift (resp. confined) with a value.
C30_NullNeverFormatted ==
  /\ [](/\ state.fitting_results.given
            => /\ state.fitting_results.V = "value" <=> state.fitting_results.model = "drift"
               /\ state.fitting_results.L = "value" <=> state.fitting_results.model = "confined"
               /\ state.fitting_results.V \in {"value", "None"}
               /\ state.fitting_results.L \in {"value", "None"}
        /\ output.export # "TypeError")
  /\ [][ SaveResults =>
           /\ output'.V_row => /\ state.fitting_results.model = "drift"
                               /\ state.fitting_results.V = "value"
           /\ output'.L_row => /\ state.fitting_results.model = "confined"
                               /\ state.fitting_results.L = "value" ]_vars

====
